---- MODULE Spec2Model ----
(***************************************************************************)
(* Model of src/src/05-objects-tasks.js: the css selector builder (class   *)
(* SB and the shared cssSelectorBuilder), the Rectangle constructor and    *)
(* the getJSON / fromJSON helpers.                                         *)
(*                                                                         *)
(* Selector builder state: a heap of arrays (the `a` field of every SB     *)
(* object that is still referenced) and the program variables that hold    *)
(* builders; `builder` is the module constant cssSelectorBuilder.  ret is  *)
(* the outcome of the last call: the builder returned, the error thrown    *)
(* or the string returned.                                                 *)
(*                                                                         *)
(* Rectangle and JSON state: obj is the object the program works on, area  *)
(* the value of the last getArea() call, json the text of the last         *)
(* getJSON(obj) call and copy the object of the last fromJSON call.        *)
(***************************************************************************)
EXTENDS Naturals, Sequences, FiniteSets, TLC

VARIABLES heap, ref, ret, obj, area, json, copy

sbvars == <<heap, ref, ret>>
vars == <<heap, ref, ret, obj, area, json, copy>>

\* ---------------------------------------------------------------- bounds
\* longest receiver array an operation is applied to
MaxLen == 2

\* the numbers given to Rectangle are 10, 20, ..., 10 * MaxNum
MaxNum == 2

Values == {"a"}
Tokens == {"+"}
\* const builder = cssSelectorBuilder; x holds any builder, y a selector of
\* one fragment made from cssSelectorBuilder
Slots == {"builder", "x", "y"}
Dst(recv) == IF recv = "builder" THEN {"x", "y"} ELSE {"x"}

\* ---------------------------------------------------------------- SB
\* const p = { element: 0, id: 1, ... }
p(kind) ==
  CASE kind = "element" -> 0
    [] kind = "id" -> 1
    [] kind = "class" -> 2
    [] kind = "attr" -> 3
    [] kind = "pseudoClass" -> 4
    [] kind = "pseudoElement" -> 5

err1 == "Selector parts should be arranged in the following order: element, id, class, attribute, pseudo-class, pseudo-element"
err2 == "Element, id and pseudo-element should not occur more then one time inside the selector"

\* the smallest object id not in use
Fresh(h) == CHOOSE n \in 1..(Cardinality(DOMAIN h) + 1) :
              /\ n \notin DOMAIN h
              /\ \A m \in 1..(n - 1) : m \in DOMAIN h

\* h with array n added, holding the elements items
Alloc(h, n, items) == [i \in DOMAIN h \cup {n} |-> IF i = n THEN items ELSE h[i]]

\* concat written as push: the receiver array itself grows and is returned
concat_push(h, id, items) == [h |-> [h EXCEPT ![id] = h[id] \o items], id |-> id]

\* Array.prototype.concat: a new array, the receiver array is left alone
concat(h, id, items) ==
  LET n == Fresh(h) IN [h |-> Alloc(h, n, h[id] \o items), id |-> n]

\* some() testing e[1], the text, in place of e[0], the kind
some_text(a, kind) == \E i \in 1..Len(a) : a[i][2] = kind

\* Array.prototype.some((e) => e[0] === kind)
some(a, kind) == \E i \in 1..Len(a) : a[i][1] = kind

\* the loop started at i = 2: the first pair is never compared
Unordered_from2(a) == \E i \in 3..Len(a) : p(a[i - 1][1]) > p(a[i][1])

\* only the new, last fragment compared with the one before it
Unordered_last(a) == Len(a) > 1 /\ p(a[Len(a) - 1][1]) > p(a[Len(a)][1])

\* the loop of the SB constructor: TRUE when it throws err1
Unordered(a) == \E i \in 2..Len(a) : p(a[i - 1][1]) > p(a[i][1])

\* new SB(a, validate), a being the array with id `id` of heap h
SB(h, id, validate) ==
  IF validate /\ Unordered(h[id])
  THEN [h |-> h, t |-> "throw", v |-> err1]
  ELSE [h |-> h, t |-> "SB", v |-> id]

Throw(h, msg) == [h |-> h, t |-> "throw", v |-> msg]

\* new SB(this.a.concat([[kind, text]]))
SBappend(h, this, kind, text) ==
  LET c == concat(h, this, << <<kind, text>> >>) IN SB(c.h, c.id, TRUE)

element(h, this, s) ==
  IF some(h[this], "element") THEN Throw(h, err2)
  ELSE SBappend(h, this, "element", s)

\* id() building the new SB before looking for a second id
id_late(h, this, s) ==
  LET r == SBappend(h, this, "id", "#" \o s)
  IN IF r.t = "throw" THEN r
     ELSE IF some(h[this], "id") THEN Throw(h, err2) ELSE r

id(h, this, s) ==
  IF some(h[this], "id") THEN Throw(h, err2)
  ELSE SBappend(h, this, "id", "#" \o s)

class(h, this, s) == SBappend(h, this, "class", "." \o s)

attr(h, this, s) == SBappend(h, this, "attr", "[" \o s \o "]")

pseudoClass(h, this, s) == SBappend(h, this, "pseudoClass", ":" \o s)

pseudoElement(h, this, s) ==
  IF some(h[this], "pseudoElement") THEN Throw(h, err2)
  ELSE SBappend(h, this, "pseudoElement", "::" \o s)

\* combine() without the `false` argument: the result is validated
combine_validated(h, this, s1, c, s2) ==
  LET c1 == concat(h, this, h[s1])
      c2 == concat(c1.h, c1.id, << <<"element", " " \o c \o " ">> >>)
      c3 == concat(c2.h, c2.id, c2.h[s2])
  IN SB(c3.h, c3.id, TRUE)

combine(h, this, s1, c, s2) ==
  LET c1 == concat(h, this, h[s1])
      c2 == concat(c1.h, c1.id, << <<"element", " " \o c \o " ">> >>)
      c3 == concat(c2.h, c2.id, c2.h[s2])
  IN SB(c3.h, c3.id, FALSE)

RECURSIVE join_comma(_)
\* join() with its default separator
join_comma(a) ==
  IF a = <<>> THEN ""
  ELSE IF Len(a) = 1 THEN a[1][2] ELSE a[1][2] \o "," \o join_comma(Tail(a))

RECURSIVE join(_)
\* a.map((e) => e[1]).join('')
join(a) == IF a = <<>> THEN "" ELSE a[1][2] \o join(Tail(a))

stringify(h, this) == join(h[this])

\* ---------------------------------------------------------------- program
\* Garbage collection: only the arrays a program variable still reaches are
\* kept.  Object identities carry no meaning beyond equality, so the live
\* arrays are renumbered in the order builder, x, y of the variables.
Compact(h, r) ==
  LET nx == IF r.x = r.builder THEN 1 ELSE 2
      ny == IF r.y = r.builder THEN 1 ELSE IF r.y = r.x THEN nx ELSE nx + 1
  IN [heap |-> [n \in {1, nx, ny} |->
                  IF n = 1 THEN h[r.builder] ELSE IF n = nx THEN h[r.x] ELSE h[r.y]],
      ref |-> [builder |-> 1, x |-> nx, y |-> ny]]

\* dst = <the call with outcome r>; a throw leaves dst as it was
Finish(op, r, dst) ==
  LET r1 == IF r.t = "SB" THEN [ref EXCEPT ![dst] = r.v] ELSE ref
      c == Compact(r.h, r1)
  IN /\ ret' = [op |-> op, t |-> r.t, v |-> IF r.t = "SB" THEN c.ref[dst] ELSE r.v]
     /\ ref' = c.ref
     /\ heap' = c.heap
     /\ UNCHANGED <<obj, area, json, copy>>

\* dst = recv.element(s)
Element(recv, dst, s) ==
  /\ Len(heap[ref[recv]]) <= MaxLen
  /\ Finish("element", element(heap, ref[recv], s), dst)

\* dst = recv.id(s)
Id(recv, dst, s) ==
  /\ Len(heap[ref[recv]]) <= MaxLen
  /\ Finish("id", id(heap, ref[recv], s), dst)

\* dst = recv.class(s)
Class(recv, dst, s) ==
  /\ Len(heap[ref[recv]]) <= MaxLen
  /\ Finish("class", class(heap, ref[recv], s), dst)

\* dst = recv.attr(s)
Attr(recv, dst, s) ==
  /\ Len(heap[ref[recv]]) <= MaxLen
  /\ Finish("attr", attr(heap, ref[recv], s), dst)

\* dst = recv.pseudoClass(s)
PseudoClass(recv, dst, s) ==
  /\ Len(heap[ref[recv]]) <= MaxLen
  /\ Finish("pseudoClass", pseudoClass(heap, ref[recv], s), dst)

\* dst = recv.pseudoElement(s)
PseudoElement(recv, dst, s) ==
  /\ Len(heap[ref[recv]]) <= MaxLen
  /\ Finish("pseudoElement", pseudoElement(heap, ref[recv], s), dst)

\* x = recv.combine(s1, c, s2)
Combine(recv, s1, c, s2) ==
  /\ Len(heap[ref[recv]]) + Len(heap[ref[s1]]) + Len(heap[ref[s2]]) <= MaxLen
  /\ Finish("combine", combine(heap, ref[recv], ref[s1], c, ref[s2]), "x")

\* recv.stringify()
Stringify(recv) ==
  /\ ret' = [op |-> "stringify", t |-> "string", v |-> stringify(heap, ref[recv])]
  /\ UNCHANGED <<heap, ref, obj, area, json, copy>>

\* ---------------------------------------------------------------- values
\* JavaScript values: numbers, undefined, null, NaN and functions
Num(n) == [t |-> "number", n |-> n]
Undefined == [t |-> "undefined", n |-> 0]
Null == [t |-> "null", n |-> 0]
NaN == [t |-> "NaN", n |-> 0]
Function == [t |-> "function", n |-> 0]

Nums == {Num(10 * k) : k \in 1..MaxNum}
Vals == Nums \cup {Undefined, NaN}

\* An object: props is the sequence of its own properties <<key, value>> in
\* enumeration order (insertion order: no key here is an integer); scope
\* holds the constructor arguments that the object's arrow function closes
\* over, and is empty for an object that has no such function.
Object(props) == [props |-> props, scope |-> <<>>]
HasKey(o, key) == \E i \in 1..Len(o.props) : o.props[i][1] = key
Get(o, key) ==
  IF HasKey(o, key)
  THEN o.props[CHOOSE i \in 1..Len(o.props) : o.props[i][1] = key][2]
  ELSE Undefined
\* o.key = v
Set(o, key, v) ==
  [o EXCEPT !.props =
     IF HasKey(o, key)
     THEN [i \in 1..Len(o.props) |-> IF o.props[i][1] = key THEN <<key, v>> ELSE o.props[i]]
     ELSE Append(o.props, <<key, v>>)]

\* the operator *: ToNumber of both operands, NaN when either is not a number
ToNumber(v) ==
  CASE v.t = "number" -> v
    [] v.t = "null" -> Num(0)
    [] OTHER -> NaN
Times(a, b) ==
  IF ToNumber(a).t = "number" /\ ToNumber(b).t = "number"
  THEN Num(ToNumber(a).n * ToNumber(b).n) ELSE NaN

\* ---------------------------------------------------------------- Rectangle
\* new Rectangle(width, height)
Rectangle(width, height) ==
  [props |-> << <<"width", width>>, <<"height", height>>, <<"getArea", Function>> >>,
   scope |-> <<width, height>>]

\* () => width * height: the constructor arguments, not the fields
getArea_cached(this) == Times(this.scope[1], this.scope[2])

\* this.getArea(): () => this.width * this.height
getArea(this) == Times(Get(this, "width"), Get(this, "height"))

\* ---------------------------------------------------------------- JSON
\* A JSON text is the sequence of its characters, a key's name and the word
\* null each counting as one.
Digit == <<"0", "1", "2", "3", "4", "5", "6", "7", "8", "9">>
IsDigit(ch) == \E d \in 1..10 : Digit[d] = ch
DigitValue(ch) == (CHOOSE d \in 1..10 : Digit[d] = ch) - 1

RECURSIVE NumberToString(_)
NumberToString(n) ==
  IF n < 10 THEN <<Digit[n + 1]>>
  ELSE NumberToString(n \div 10) \o <<Digit[(n % 10) + 1]>>

\* JSON.stringify of a property value; undefined and functions have none
HasJSON(v) == v.t \notin {"undefined", "function"}
ValueText(v) == IF v.t = "number" THEN NumberToString(v.n) ELSE <<"null">>

RECURSIVE Members(_, _)
\* the members of o from property i on, each one preceded by a comma
Members(o, i) ==
  IF i > Len(o.props) THEN <<>>
  ELSE IF HasJSON(o.props[i][2])
       THEN <<",", "\"", o.props[i][1], "\"", ":">> \o ValueText(o.props[i][2])
              \o Members(o, i + 1)
       ELSE Members(o, i + 1)

\* JSON.stringify(o) for an object o
JSONstringify(o) ==
  LET m == Members(o, 1) IN <<"{">> \o (IF m = <<>> THEN <<>> ELSE Tail(m)) \o <<"}">>

getJSON(o) == JSONstringify(o)

RECURSIVE ParseNumber(_, _, _)
\* the digits of text from i on: the number read and the place after it
ParseNumber(text, i, acc) ==
  IF i <= Len(text) /\ IsDigit(text[i])
  THEN ParseNumber(text, i + 1, 10 * acc + DigitValue(text[i]))
  ELSE [v |-> Num(acc), next |-> i]

ParseValue(text, i) ==
  IF text[i] = "null" THEN [v |-> Null, next |-> i + 1] ELSE ParseNumber(text, i, 0)

RECURSIVE ParseMembers(_, _, _)
\* text[i] opens a key: the properties read up to the closing brace
ParseMembers(text, i, o) ==
  LET val == ParseValue(text, i + 4)
      o1 == Set(o, text[i + 1], val.v)
  IN IF text[val.next] = "," THEN ParseMembers(text, val.next + 1, o1) ELSE o1

\* JSON.parse(text) for the text of an object
JSONparse(text) ==
  IF text[2] = "}" THEN Object(<<>>) ELSE ParseMembers(text, 2, Object(<<>>))

\* Object.values in reverse
ObjectValues_reversed(o) ==
  [i \in 1..Len(o.props) |-> o.props[Len(o.props) + 1 - i][2]]

\* Object.values(o)
ObjectValues(o) == [i \in 1..Len(o.props) |-> o.props[i][2]]

\* new proto.constructor(...args): a missing argument is undefined
Arg(args, i) == IF i <= Len(args) THEN args[i] ELSE Undefined
Construct(proto, args) ==
  CASE proto = "Rectangle.prototype" -> Rectangle(Arg(args, 1), Arg(args, 2))

fromJSON(proto, text) == Construct(proto, ObjectValues(JSONparse(text)))

\* ---------------------------------------------------------------- program
\* obj = new Rectangle(width, height)
NewRectangle(width, height) ==
  /\ obj' = Rectangle(width, height)
  /\ UNCHANGED <<area, json, copy, heap, ref, ret>>

\* obj = { k1: v1, k2: v2 }
NewObject(k1, v1, k2, v2) ==
  /\ obj' = Set(Set(Object(<<>>), k1, v1), k2, v2)
  /\ UNCHANGED <<area, json, copy, heap, ref, ret>>

\* obj.key = v
SetField(key, v) ==
  /\ obj' = Set(obj, key, v)
  /\ UNCHANGED <<area, json, copy, heap, ref, ret>>

\* area = obj.getArea(); a TypeError when obj has no such method
GetArea ==
  /\ Get(obj, "getArea").t = "function"
  /\ area' = getArea(obj)
  /\ UNCHANGED <<obj, json, copy, heap, ref, ret>>

\* json = getJSON(obj)
GetJSON ==
  /\ json' = getJSON(obj)
  /\ UNCHANGED <<obj, area, copy, heap, ref, ret>>

\* copy = fromJSON(Rectangle.prototype, json); a SyntaxError when json is not
\* a JSON text
FromJSON ==
  /\ json # <<>>
  /\ copy' = fromJSON("Rectangle.prototype", json)
  /\ UNCHANGED <<obj, area, json, heap, ref, ret>>

\* obj = {}, nothing called yet
RInit ==
  /\ obj = Object(<<>>)
  /\ area = Undefined
  /\ json = <<>>
  /\ copy = Object(<<>>)

RectNext ==
  \/ \E width \in Vals, height \in Vals : NewRectangle(width, height)
  \/ \E key \in {"width", "height"}, v \in Vals : SetField(key, v)
  \/ GetArea

JSONNext ==
  \/ \E width \in Vals, height \in Vals : NewRectangle(width, height)
  \/ \E k1 \in {"width", "height"}, k2 \in {"width", "height"}, v1 \in Vals, v2 \in Vals :
       k1 # k2 /\ NewObject(k1, v1, k2, v2)
  \/ GetJSON
  \/ FromJSON

\* const cssSelectorBuilder = new SB(); every variable starts as an alias of it
SBInit ==
  /\ heap = [i \in {1} |-> <<>>]
  /\ ref = [builder |-> 1, x |-> 1, y |-> 1]
  /\ ret = [op |-> "new", t |-> "SB", v |-> 1]

SBNext ==
  \/ \E recv \in Slots, s \in Values : \E dst \in Dst(recv) : Element(recv, dst, s)
  \/ \E recv \in Slots, s \in Values : \E dst \in Dst(recv) : Id(recv, dst, s)
  \/ \E recv \in Slots, s \in Values : \E dst \in Dst(recv) : Class(recv, dst, s)
  \/ \E recv \in Slots, s \in Values : \E dst \in Dst(recv) : Attr(recv, dst, s)
  \/ \E recv \in Slots, s \in Values : \E dst \in Dst(recv) : PseudoClass(recv, dst, s)
  \/ \E recv \in Slots, s \in Values : \E dst \in Dst(recv) : PseudoElement(recv, dst, s)
  \/ \E recv \in Slots, s1 \in Slots, s2 \in Slots, c \in Tokens : Combine(recv, s1, c, s2)
  \/ \E recv \in Slots : Stringify(recv)

Init == SBInit /\ RInit

\* the selector builder
Spec == Init /\ [][SBNext]_vars
\* Rectangle and getArea
SpecRect == Init /\ [][RectNext]_vars
\* getJSON and fromJSON
SpecJSON == Init /\ [][JSONNext]_vars

\* ---------------------------------------------------------------- vocabulary
\* the fragments of the builder held by variable k
A(k) == heap[ref[k]]

\* the fragment combine inserts for some token
IsCombinator(f) == f[1] = "element" /\ \E c \in Tokens : f[2] = " " \o c \o " "
\* no combine took part in building a (Values holds no text of that shape)
NoCombine(a) == \A i \in 1..Len(a) : ~IsCombinator(a[i])

Count(a, kind) == Cardinality({i \in 1..Len(a) : a[i][1] = kind})
Singleton(kind) == kind \in {"element", "id", "pseudoElement"}
RankOrdered(a) == \A i \in 1..Len(a), j \in 1..Len(a) : i < j => p(a[i][1]) <= p(a[j][1])

\* the documented rendering of a fragment of the given kind and value
Rendering(kind, v) ==
  CASE kind = "element" -> v
    [] kind = "id" -> "#" \o v
    [] kind = "class" -> "." \o v
    [] kind = "attr" -> "[" \o v \o "]"
    [] kind = "pseudoClass" -> ":" \o v
    [] kind = "pseudoElement" -> "::" \o v

\* the call dst = recv.kind(s) as a step
Adds(kind, recv, dst, s) ==
  CASE kind = "element" -> Element(recv, dst, s)
    [] kind = "id" -> Id(recv, dst, s)
    [] kind = "class" -> Class(recv, dst, s)
    [] kind = "attr" -> Attr(recv, dst, s)
    [] kind = "pseudoClass" -> PseudoClass(recv, dst, s)
    [] kind = "pseudoElement" -> PseudoElement(recv, dst, s)

Kinds == {"element", "id", "class", "attr", "pseudoClass", "pseudoElement"}

\* the step is a call of op (a cheap test made before the step is matched
\* against the call's definition)
Called(op) == ret'.op = op
Thrown(msg) == ret'.t = "throw" /\ ret'.v = msg
NoBuilder == heap' = heap /\ ref' = ref

\* ---------------------------------------------------------------- C1
\* a call that appends a fragment of lower rank than the receiver's last one
LowerRank(kind, recv) ==
  /\ NoCombine(A(recv))
  /\ Len(A(recv)) > 0
  /\ p(kind) < p(A(recv)[Len(A(recv))][1])

\* C1 as stated: builders made without combine are in non-decreasing rank
\* order, and a call that would append a fragment of lower rank than the
\* receiver's last fragment raises the ordering error and yields no builder.
C1_AlwaysOrderingError ==
  /\ [](\A k \in Slots : NoCombine(A(k)) => RankOrdered(A(k)))
  /\ [][\A kind \in Kinds, recv \in Slots, s \in Values : \A dst \in Dst(recv) :
          (Called(kind) /\ LowerRank(kind, recv) /\ Adds(kind, recv, dst, s))
            => (Thrown(err1) /\ NoBuilder)]_sbvars

\* C1 amended: builders made without combine are in non-decreasing rank
\* order; a call that would append a fragment of lower rank than the
\* receiver's last fragment yields no builder and raises the duplicate error
\* when the kind is element or id and the receiver already holds a fragment of
\* that kind, and the ordering error otherwise.
C1_KindOrdering ==
  /\ [](\A k \in Slots : NoCombine(A(k)) => RankOrdered(A(k)))
  /\ [][\A kind \in Kinds, recv \in Slots, s \in Values : \A dst \in Dst(recv) :
          (Called(kind) /\ LowerRank(kind, recv) /\ Adds(kind, recv, dst, s))
            => /\ NoBuilder
               /\ IF Singleton(kind) /\ Count(A(recv), kind) > 0
                  THEN Thrown(err2) ELSE Thrown(err1)]_sbvars

\* class('a').id('a') has just raised the ordering error (x is the only
\* variable whose builder is not empty)
C1_Witness ==
  /\ ret.op = "id" /\ ret.t = "throw" /\ ret.v = err1
  /\ A("x") = << <<"class", ".a">> >>
  /\ A("y") = <<>>

\* ---------------------------------------------------------------- C2
\* C2 as stated: in every builder, element, id and pseudoElement fragments
\* occur at most once each.
C2_SingletonEverywhere ==
  \A k \in Slots : \A kind \in Kinds : Singleton(kind) => Count(A(k), kind) <= 1

\* C2 amended: in every builder made by fragment-adding operations only (no
\* combine anywhere in its construction), element, id and pseudoElement
\* fragments occur at most once each.
C2_SingletonKinds ==
  \A k \in Slots : NoCombine(A(k)) =>
    \A kind \in Kinds : Singleton(kind) => Count(A(k), kind) <= 1

\* id('a').pseudoElement('a') holds two singleton kinds once each, and a
\* second pseudoElement has just been refused
C2_Witness ==
  /\ ret.op = "pseudoElement" /\ ret.t = "throw" /\ ret.v = err2
  /\ A("x") = << <<"id", "#a">>, <<"pseudoElement", "::a">> >>
  /\ A("y") = <<>>

\* ---------------------------------------------------------------- C3
\* C3: combine(left, token, right) on any receiver returns exactly left's
\* fragments, the combinator fragment ' token ', then right's fragments.
C3_CombineConcatenation ==
  [][\A recv \in Slots, s1 \in Slots, s2 \in Slots, c \in Tokens :
       (Called("combine") /\ Combine(recv, s1, c, s2)) =>
         /\ ret'.t = "SB"
         /\ A("x")' = A(s1) \o << <<"element", " " \o c \o " ">> >> \o A(s2)
         /\ stringify(heap', ref'.x)
              = stringify(heap, ref[s1]) \o " " \o c \o " " \o stringify(heap, ref[s2])]_sbvars

\* ---------------------------------------------------------------- C4
\* C4: no call changes the fragments of its receiver or of an argument: after
\* a call that returns a builder, every variable that does not hold the
\* returned builder holds the same fragments as before the call; a call that
\* throws and a call of stringify change no builder at all; and
\* cssSelectorBuilder stays empty.
C4_Immutability ==
  /\ [](A("builder") = <<>>)
  /\ [][/\ (ret'.t = "throw" \/ ret'.op = "stringify") => NoBuilder
        /\ ret'.t = "SB" => \A k \in Slots : ref'[k] # ret'.v => A(k)' = A(k)]_sbvars

\* id('a').id('a') has just raised and the builder id('a') is still in x
C4_Witness ==
  /\ ret.op = "id" /\ ret.t = "throw" /\ ret.v = err2
  /\ A("x") = << <<"id", "#a">> >>
  /\ A("y") = << <<"class", ".a">> >>

\* ---------------------------------------------------------------- C5
RECURSIVE Concatenation(_)
\* the texts of a, one after the other
Concatenation(a) ==
  IF Len(a) = 0 THEN ""
  ELSE Concatenation(SubSeq(a, 1, Len(a) - 1)) \o a[Len(a)][2]

\* C5: a fragment-adding call that succeeds appends one fragment holding the
\* documented rendering of its value, and stringify returns the texts of the
\* fragments concatenated in sequence order, leaving the builder as it was
\* (so a repeated call returns the same string).
C5_Stringify ==
  [][/\ \A kind \in Kinds, recv \in Slots, s \in Values : \A dst \in Dst(recv) :
          (Called(kind) /\ ret'.t = "SB" /\ Adds(kind, recv, dst, s)) =>
             A(dst)' = Append(A(recv), <<kind, Rendering(kind, s)>>)
     /\ \A recv \in Slots : (Called("stringify") /\ Stringify(recv)) =>
          /\ ret'.v = Concatenation(A(recv))
          /\ A(recv)' = A(recv)]_sbvars

\* id('a').class('a').class('a').stringify() has returned '#a.a.a'
C5_Witness ==
  /\ ret.op = "stringify" /\ ret.t = "string" /\ ret.v = "#a.a.a"
  /\ A("x") = << <<"id", "#a">>, <<"class", ".a">>, <<"class", ".a">> >>

\* ---------------------------------------------------------------- C6
\* C6: element, id and pseudoElement raise the duplicate error exactly when
\* the receiver already holds a fragment of that kind (also when the new
\* fragment would break the rank order as well), and then no builder is made;
\* class, attr and pseudoClass never raise it.
C6_DuplicateError ==
  [][\A kind \in Kinds, recv \in Slots, s \in Values : \A dst \in Dst(recv) :
       (Called(kind) /\ Adds(kind, recv, dst, s)) =>
         /\ Thrown(err2) <=> (Singleton(kind) /\ Count(A(recv), kind) > 0)
         /\ Thrown(err2) => NoBuilder]_sbvars

\* id('a').class('a').id('a'): both rules are broken and the duplicate error
\* is the one raised
C6_Witness ==
  /\ ret.op = "id" /\ ret.t = "throw" /\ ret.v = err2
  /\ A("x") = << <<"id", "#a">>, <<"class", ".a">> >>
  /\ A("y") = <<>>

\* ---------------------------------------------------------------- C7
\* C7: getArea() returns the product of the width and height fields the
\* object holds when it is called (NaN when one of them is no number),
\* whatever was assigned to them since the object was made, and changes
\* nothing.
C7_GetArea ==
  [][GetArea =>
       LET w == Get(obj, "width")
           h == Get(obj, "height")
       IN /\ area' = IF w.t = "number" /\ h.t = "number" THEN Num(w.n * h.n) ELSE NaN
          /\ obj' = obj]_vars

\* a rectangle made as 10 x 20 whose width was then set to 20 has returned the
\* area 400
C7_Witness ==
  /\ obj.scope = <<Num(10), Num(20)>>
  /\ Get(obj, "width") = Num(20) /\ Get(obj, "height") = Num(20)
  /\ area = Num(400)

\* ---------------------------------------------------------------- C8
\* the keys of o come in the order of the parameters of Rectangle
KeysInParameterOrder(o) ==
  /\ Len(o.props) >= 2
  /\ o.props[1][1] = "width" /\ o.props[2][1] = "height"

\* copy is the outcome of fromJSON(Rectangle.prototype, getJSON(obj))
RoundTripDone ==
  /\ json # <<>>
  /\ json = getJSON(obj)
  /\ copy = fromJSON("Rectangle.prototype", json)

\* the values of o that reach the JSON text, as they come back from it
Parsed(v) == IF v.t = "number" THEN v ELSE Null
IsKept(kv) == kv[2].t \notin {"undefined", "function"}
Kept(o) == SelectSeq(o.props, IsKept)
Passed(o, i) == IF i <= Len(Kept(o)) THEN Parsed(Kept(o)[i][2]) ELSE Undefined

\* the constructor is given the values of the text positionally, in key order
PassedPositionally ==
  /\ Get(copy, "width") = Passed(obj, 1)
  /\ Get(copy, "height") = Passed(obj, 2)
  /\ Get(copy, "getArea") = Function

SameRectangle ==
  /\ Get(copy, "width") = Get(obj, "width")
  /\ Get(copy, "height") = Get(obj, "height")
  /\ getArea(copy) = Times(Get(obj, "width"), Get(obj, "height"))

\* C8 as stated: for every object whose keys are in the order of the
\* constructor's parameters, fromJSON(proto, getJSON(obj)) is an object made
\* by the constructor with each parameter equal to the field of obj, the
\* values being passed positionally in the key order of the text.
C8_RoundTripEveryObject ==
  RoundTripDone =>
    /\ PassedPositionally
    /\ KeysInParameterOrder(obj) => SameRectangle

\* C8 amended: the same, for every object whose keys are in the order of the
\* constructor's parameters and whose width and height are numbers (a field
\* that is undefined is left out of the text and one that is NaN comes back
\* as null).
C8_RoundTrip ==
  RoundTripDone =>
    /\ PassedPositionally
    /\ (/\ KeysInParameterOrder(obj)
        /\ Get(obj, "width").t = "number"
        /\ Get(obj, "height").t = "number") => SameRectangle

\* new Rectangle(10, 20) went through '{"width":10,"height":20}' and came
\* back as a rectangle of area 200
C8_Witness ==
  /\ obj = Rectangle(Num(10), Num(20))
  /\ json = <<"{", "\"", "width", "\"", ":", "1", "0", ",",
              "\"", "height", "\"", ":", "2", "0", "}">>
  /\ copy = Rectangle(Num(10), Num(20))
  /\ getArea(copy) = Num(200)

\* ---------------------------------------------------------------- C9
\* C9: combine never raises, whatever the concatenated sequence looks like:
\* the outcome of a combine call is always a builder, the one assigned to x.
C9_CombineNeverRaises ==
  ret.op = "combine" => (ret.t = "SB" /\ ret.v = ref.x)

\* combine has returned a builder that is out of rank order and holds two ids
C9_Witness ==
  /\ ret.op = "combine" /\ ret.t = "SB"
  /\ ~RankOrdered(A("x"))
  /\ Count(A("x"), "id") = 2

\* ---------------------------------------------------------------- C10
\* C10: a fragment-adding call succeeds exactly when the receiver holds no
\* fragment of the same singleton kind and the receiver's fragments followed
\* by the new one are in non-decreasing rank order; so class, attr and
\* pseudoClass raise the ordering error on a receiver that is not rank
\* ordered, and element raises the duplicate error on a combine result.
C10_AppendAfterCombine ==
  [][\A kind \in Kinds, recv \in Slots, s \in Values : \A dst \in Dst(recv) :
       (Called(kind) /\ Adds(kind, recv, dst, s)) =>
         /\ ret'.t = "SB" <=>
              /\ ~(Singleton(kind) /\ Count(A(recv), kind) > 0)
              /\ RankOrdered(Append(A(recv), <<kind, Rendering(kind, s)>>))
         /\ (~RankOrdered(A(recv)) /\ kind \in {"class", "attr", "pseudoClass"})
              => Thrown(err1)
         /\ (kind = "element" /\ ~NoCombine(A(recv))) => Thrown(err2)]_sbvars

\* class('a') has just raised the ordering error on combine(id('a'), '+',
\* cssSelectorBuilder), whose last fragment has rank 0 (the builders in y and
\* cssSelectorBuilder are rank ordered, so the call was made on x)
C10_Witness ==
  /\ ret.op = "class" /\ ret.t = "throw" /\ ret.v = err1
  /\ A("x") = << <<"id", "#a">>, <<"element", " + ">> >>
  /\ A("y") = << <<"id", "#a">> >>

====
